---- MODULE Spec2Model ----
(***************************************************************************)
(* Model of the Chatwork Room Messenger plugin (src/src/chatwork).         *)
(*                                                                         *)
(* One invocation of post_room_message_action is a sequence of steps:      *)
(* settings resolution, room id normalisation, the "preparing" trace,      *)
(* client construction and payload building, the transport call, the       *)
(* client's interpretation of the response, and result normalisation.      *)
(*                                                                         *)
(* Python values are records [t, s, n]: t is the type tag, s the text of a *)
(* str (a sequence of one-character strings), n the number of an int or    *)
(* the truth value (0/1) of a bool.  A key that a mapping does not hold    *)
(* is the value Absent.                                                    *)
(***************************************************************************)
EXTENDS Integers, Sequences, FiniteSets, TLC

(***************************************************************************)
(* Bounds of the model.                                                    *)
(***************************************************************************)
\* numeric room ids supplied by the host range over 0..MaxRoomNum
MaxRoomNum == 1
\* numeric message ids returned by the API range over 0..MaxMessageNum
MaxMessageNum == 0

(***************************************************************************)
(* Python values.                                                          *)
(***************************************************************************)
Absent == [t |-> "absent", s |-> <<>>, n |-> 0]
None == [t |-> "none", s |-> <<>>, n |-> 0]
Str(chars) == [t |-> "str", s |-> chars, n |-> 0]
Num(k) == [t |-> "num", s |-> <<>>, n |-> k]
Bool(b) == [t |-> "bool", s |-> <<>>, n |-> IF b THEN 1 ELSE 0]

\* dict.get(key): a missing key reads as None
Get(mapping, key) == IF mapping[key] = Absent THEN None ELSE mapping[key]

\* dict.get(key, default)
GetDefault(mapping, key, default) ==
    IF mapping[key] = Absent THEN default ELSE mapping[key]

\* Python truthiness: bool(v), `not v`, the operands of `or` and `and`
Truthy(v) ==
    CASE v.t = "str" -> v.s # <<>>
      [] v.t = "num" -> v.n # 0
      [] v.t = "bool" -> v.n = 1
      [] OTHER -> FALSE

\* a or b
PyOr(a, b) == IF Truthy(a) THEN a ELSE b

\* isinstance(v, str)
IsStr(v) == v.t = "str"

\* isinstance(v, (int, float)): bool is a subclass of int
IsNumber(v) == v.t \in {"num", "bool"}

Digit(d) == <<"0", "1", "2", "3", "4", "5", "6", "7", "8", "9">>[d + 1]

RECURSIVE NatToStr(_)
NatToStr(k) ==
    IF k < 10 THEN <<Digit(k)>> ELSE NatToStr(k \div 10) \o <<Digit(k % 10)>>

\* str(int)
IntToStr(k) == IF k < 0 THEN <<"-">> \o NatToStr(0 - k) ELSE NatToStr(k)

\* str(v)
PyStr(v) ==
    CASE v.t = "str" -> v.s
      [] v.t = "num" -> IntToStr(v.n)
      [] v.t = "bool" -> IF v.n = 1 THEN <<"T", "r", "u", "e">>
                                    ELSE <<"F", "a", "l", "s", "e">>
      [] OTHER -> <<"N", "o", "n", "e">>

RECURSIVE LStrip(_)
LStrip(chars) ==
    IF chars # <<>> /\ Head(chars) = " " THEN LStrip(Tail(chars)) ELSE chars

RECURSIVE RStrip(_)
RStrip(chars) ==
    IF chars # <<>> /\ chars[Len(chars)] = " "
    THEN RStrip(SubSeq(chars, 1, Len(chars) - 1))
    ELSE chars

\* str.strip()
Strip(chars) == RStrip(LStrip(chars))

\* str.rstrip("/")
RECURSIVE RStripSlash(_)
RStripSlash(chars) ==
    IF chars # <<>> /\ chars[Len(chars)] = "/"
    THEN RStripSlash(SubSeq(chars, 1, Len(chars) - 1))
    ELSE chars


(***************************************************************************)
(* urllib.parse.quote / urlencode over the characters of the model.        *)
(* Letters, digits and "_.-~" are never quoted; every other character is   *)
(* percent-encoded, except the ones the caller declares safe.              *)
(***************************************************************************)
PercentEncode(c) ==
    CASE c = " " -> <<"%", "2", "0">>
      [] c = "+" -> <<"%", "2", "B">>
      [] c = "/" -> <<"%", "2", "F">>
      [] c = ":" -> <<"%", "3", "A">>
      [] c = "[" -> <<"%", "5", "B">>
      [] c = "]" -> <<"%", "5", "D">>
      [] OTHER -> <<c>>

\* urllib.parse.quote(text): "/" is safe
RECURSIVE Quote(_)
Quote(chars) ==
    IF chars = <<>> THEN <<>>
    ELSE (IF Head(chars) = "/" THEN <<"/">> ELSE PercentEncode(Head(chars)))
         \o Quote(Tail(chars))

\* urllib.parse.quote_plus(text): a space becomes "+", "/" is not safe
RECURSIVE QuotePlus(_)
QuotePlus(chars) ==
    IF chars = <<>> THEN <<>>
    ELSE (IF Head(chars) = " " THEN <<"+">> ELSE PercentEncode(Head(chars)))
         \o QuotePlus(Tail(chars))

\* urllib.parse.urlencode({"body": text})
UrlEncodeBody(text) == <<"b", "o", "d", "y", "=">> \o QuotePlus(text)

(***************************************************************************)
(* Settings.                                                               *)
(***************************************************************************)
DEFAULT_BASE_URL == <<"h", "t", "t", "p", "s", ":", "/", "/", "a", "p", "i", ".", "c", "h", "a", "t", "w", "o", "r", "k", ".", "c", "o", "m", "/", "v", "2">>

NoConfig ==
    [api_token |-> <<>>, base_url |-> <<>>, default_room_id |-> None,
     account_id |-> None]

\* the api_token that from_mapping reads: str(data.get("apiToken", "")).strip()
TokenOf(data) == Strip(PyStr(GetDefault(data, "apiToken", Str(<<>>))))

\* an optional setting: a str is trimmed and an empty str becomes None; any
\* other value passes through
OptionalSetting(data, key) ==
    LET v == Get(data, key)
    IN  IF IsStr(v) THEN PyOr(Str(Strip(v.s)), None) ELSE v

\* ChatworkSettings.from_mapping: raised is TRUE when it raises ValidationError
from_mapping(data) ==
    LET api_token == TokenOf(data)
        base == Strip(PyStr(GetDefault(data, "baseUrl", Str(DEFAULT_BASE_URL))))
        base_url == IF base # <<>> THEN base ELSE DEFAULT_BASE_URL
    IN  IF api_token = <<>>
        THEN [raised |-> TRUE, config |-> NoConfig]
        ELSE [raised |-> FALSE,
              config |-> [api_token |-> api_token,
                          base_url |-> RStripSlash(base_url),
                          default_room_id |-> OptionalSetting(data, "defaultRoomId"),
                          account_id |-> OptionalSetting(data, "accountId")]]

(***************************************************************************)
(* Room id.                                                                *)
(***************************************************************************)
\* _normalize_room_id: raised is TRUE when it raises ValidationError
normalize_room_id(value) ==
    LET v == IF IsNumber(value) THEN Str(IntToStr(value.n)) ELSE value
    IN  IF value.t = "none" THEN [raised |-> TRUE, room_id |-> <<>>]
        ELSE IF IsStr(v) /\ Strip(v.s) # <<>>
             THEN [raised |-> FALSE, room_id |-> Strip(v.s)]
             ELSE [raised |-> TRUE, room_id |-> <<>>]

\* room_id_value = inputs.get("roomId") or config.default_room_id
room_id_value(inp, config) == PyOr(Get(inp, "roomId"), config.default_room_id)

(***************************************************************************)
(* Payload.                                                                *)
(***************************************************************************)
\* build_message_payload prepending the mention tag before the link marker
build_message_payload_mention_first(message, self_mention, link_urls, account_id) ==
    LET trimmed == Strip(message.s)
        mentioned == IF self_mention /\ Truthy(account_id)
                     THEN <<"[", "T", "o", ":">> \o PyStr(account_id)
                          \o <<"]", " ">> \o trimmed
                     ELSE trimmed
        body == IF link_urls THEN <<"+">> \o mentioned ELSE mentioned
    IN  IF ~Truthy(message) THEN [error |-> "ValidationError", body |-> <<>>]
        ELSE IF ~IsStr(message) THEN [error |-> "AttributeError", body |-> <<>>]
        ELSE [error |-> "none", body |-> body]

\* build_message_payload: error is "ValidationError" for a falsy message,
\* "AttributeError" when message.strip() is applied to a value that is no str
build_message_payload(message, self_mention, link_urls, account_id) ==
    LET trimmed == Strip(message.s)
        linked == IF link_urls THEN <<"+">> \o trimmed ELSE trimmed
        body == IF self_mention /\ Truthy(account_id)
                THEN <<"[", "T", "o", ":">> \o PyStr(account_id) \o <<"]", " ">>
                     \o linked
                ELSE linked
    IN  IF ~Truthy(message) THEN [error |-> "ValidationError", body |-> <<>>]
        ELSE IF ~IsStr(message) THEN [error |-> "AttributeError", body |-> <<>>]
        ELSE [error |-> "none", body |-> body]


(***************************************************************************)
(* Responses.  The text of a response is empty, not JSON, or the JSON      *)
(* encoding of a document; json.loads of the third gives the document      *)
(* back.  A document is a JSON object with the four fields the action      *)
(* reads (a field it lacks is Absent), or some JSON value that is not an   *)
(* object (k = "other": a list, a number, a string).                       *)
(***************************************************************************)
Dict(message_id, messageId, send_time, postedAt) ==
    [k |-> "dict", message_id |-> message_id, messageId |-> messageId,
     send_time |-> send_time, postedAt |-> postedAt]

EmptyDict == Dict(Absent, Absent, Absent, Absent)

NotAnObject ==
    [k |-> "other", message_id |-> Absent, messageId |-> Absent,
     send_time |-> Absent, postedAt |-> Absent]

EmptyText == [form |-> "empty", doc |-> EmptyDict]
InvalidText == [form |-> "invalid", doc |-> EmptyDict]
JsonText(doc) == [form |-> "json", doc |-> doc]

\* _Response.ok with the upper limit included: 300 counts as a success
ok_through_300(response) == 200 <= response.status /\ response.status <= 300

\* _Response.ok
ok(response) == 200 <= response.status /\ response.status < 300

NoResult ==
    [messageId |-> None, roomId |-> <<>>, postedAt |-> None, raw |-> EmptyDict]

\* what an invocation ends with: kind is "none" while it runs, "result" when it
\* returns, else the exception's class; status 0 stands for no status
Outcome(kind, status, body_text, body_doc, result) ==
    [kind |-> kind, status |-> status, body_text |-> body_text,
     body_doc |-> body_doc, result |-> result]

NoOutcome == Outcome("none", 0, EmptyText, EmptyDict, NoResult)

Raise(kind) == Outcome(kind, 0, EmptyText, EmptyDict, NoResult)

\* post_room_message reporting a body that is not JSON as a ValidationError
interpret_response_invalid_as_validation(response) ==
    LET payload == IF response.text.form = "empty" THEN EmptyDict
                   ELSE response.text.doc
    IN  IF response.text.form = "invalid"
        THEN Outcome("ValidationError", response.status, response.text,
                     EmptyDict, NoResult)
        ELSE IF response.status = 401
        THEN Outcome("AuthenticationError", response.status, EmptyText,
                     payload, NoResult)
        ELSE IF ~ok(response)
        THEN Outcome("ChatworkAPIError", response.status, EmptyText, payload,
                     NoResult)
        ELSE Outcome("return", 0, EmptyText, payload, NoResult)

\* post_room_message testing response.ok before it tests for status 401
interpret_response_ok_first(response) ==
    LET payload == IF response.text.form = "empty" THEN EmptyDict
                   ELSE response.text.doc
    IN  IF response.text.form = "invalid"
        THEN Outcome("ChatworkAPIError", response.status, response.text,
                     EmptyDict, NoResult)
        ELSE IF ~ok(response)
        THEN Outcome("ChatworkAPIError", response.status, EmptyText, payload,
                     NoResult)
        ELSE IF response.status = 401
        THEN Outcome("AuthenticationError", response.status, EmptyText,
                     payload, NoResult)
        ELSE Outcome("return", 0, EmptyText, payload, NoResult)

\* ChatworkClient.post_room_message after the transport has returned: the
\* exception raised, or kind "return" with the payload in body_doc
interpret_response(response) ==
    LET payload == IF response.text.form = "empty" THEN EmptyDict
                   ELSE response.text.doc
    IN  IF response.text.form = "invalid"
        THEN Outcome("ChatworkAPIError", response.status, response.text,
                     EmptyDict, NoResult)
        ELSE IF response.status = 401
        THEN Outcome("AuthenticationError", response.status, EmptyText,
                     payload, NoResult)
        ELSE IF ~ok(response)
        THEN Outcome("ChatworkAPIError", response.status, EmptyText, payload,
                     NoResult)
        ELSE Outcome("return", 0, EmptyText, payload, NoResult)

(***************************************************************************)
(* Timestamps: datetime.utcfromtimestamp(seconds).isoformat() + "Z" for    *)
(* seconds >= 0, by the proleptic Gregorian calendar.                      *)
(***************************************************************************)
Pad2(k) == <<Digit(k \div 10), Digit(k % 10)>>

Pad4(k) == Pad2(k \div 100) \o Pad2(k % 100)

IsoFormatZ(seconds) ==
    LET days == seconds \div 86400
        secs == seconds % 86400
        z == days + 719468
        era == z \div 146097
        doe == z - era * 146097
        yoe == (doe - doe \div 1460 + doe \div 36524 - doe \div 146096) \div 365
        doy == doe - (365 * yoe + yoe \div 4 - yoe \div 100)
        mp == (5 * doy + 2) \div 153
        day == doy - (153 * mp + 2) \div 5 + 1
        month == IF mp < 10 THEN mp + 3 ELSE mp - 9
        year == yoe + era * 400 + (IF month <= 2 THEN 1 ELSE 0)
    IN  Pad4(year) \o <<"-">> \o Pad2(month) \o <<"-">> \o Pad2(day) \o <<"T">>
        \o Pad2(secs \div 3600) \o <<":">> \o Pad2((secs % 3600) \div 60)
        \o <<":">> \o Pad2(secs % 60) \o <<"Z">>

\* _normalize_timestamp
normalize_timestamp(result) ==
    LET send_time == PyOr(Get(result, "send_time"), Get(result, "postedAt"))
    IN  IF IsNumber(send_time) THEN Str(IsoFormatZ(send_time.n))
        ELSE IF IsStr(send_time) THEN send_time
        ELSE None

\* the normalized mapping the action returns for a payload that is an object
normalize_result(result, room) ==
    [messageId |-> PyOr(Get(result, "message_id"), Get(result, "messageId")),
     roomId |-> room,
     postedAt |-> normalize_timestamp(result),
     raw |-> result]


(***************************************************************************)
(* What the host and the API may supply.                                   *)
(***************************************************************************)
TokenValues == {Absent, None, Str(<<" ">>), Str(<<" ", "t", "k", " ">>)}

BaseUrlValues ==
    {Absent, Str(<<" ">>), Str(<<" ", "h", "/", " ">>), Str(<<"/">>)}

DefaultRoomValues == {Absent, Str(<<" ", "9", " ">>), Num(3)}

AccountValues == {Absent, Str(<<" ">>), Str(<<" ", "a", " ">>)}

RoomValues ==
    {Absent, None, Str(<<>>), Str(<<" ">>), Str(<<" ", "7", " ">>), Bool(TRUE)}
    \cup {Num(k) : k \in 0..MaxRoomNum}

MessageValues ==
    {Absent, Str(<<>>), Str(<<" ">>), Str(<<" ", "h", "i", " ">>), Num(5)}

FlagValues == {Absent, Bool(TRUE), Bool(FALSE)}

SettingsMappings ==
    [apiToken : TokenValues, baseUrl : BaseUrlValues,
     defaultRoomId : DefaultRoomValues, accountId : AccountValues]

InputMappings ==
    [roomId : RoomValues, message : MessageValues, selfMention : FlagValues,
     linkUrls : FlagValues]

NoMapping == [apiToken |-> Absent, baseUrl |-> Absent, defaultRoomId |-> Absent,
              accountId |-> Absent]

NoInputs == [roomId |-> Absent, message |-> Absent, selfMention |-> Absent,
             linkUrls |-> Absent]

Statuses == {199, 200, 299, 300, 401}

MessageIdValues ==
    {Absent, Str(<<"m", "1">>)} \cup {Num(k) : k \in 0..MaxMessageNum}

SendTimeValues == {Absent, Num(0), Num(1700000000), Str(<<"t">>), Bool(TRUE)}

\* the documents of the model: every combination of the two message id fields,
\* and every combination of the two timestamp fields
ResponseDocs ==
    {Dict(a, b, Absent, Absent) :
        a \in MessageIdValues, b \in {Absent, Str(<<"m", "2">>)}}
    \cup {Dict(Str(<<"m", "1">>), Absent, s, p) :
        s \in SendTimeValues, p \in {Absent, Str(<<"p">>)}}
    \cup {NotAnObject}

ResponseTexts == {EmptyText, InvalidText} \cup {JsonText(d) : d \in ResponseDocs}

Responses == [status : Statuses, text : ResponseTexts]

NoResponse == [status |-> 0, text |-> EmptyText]

NoRequest == [url |-> <<>>, method |-> "", token |-> <<>>, body |-> <<>>]

\* how many later invocations the observer counts after the recorded one
MaxLater == 2

\* the observer's record: the inputs of an invocation, what it sent, what the
\* transport answered and how it ended; later counts the invocations since
NoMemo ==
    [valid |-> FALSE, later |-> 0, settings |-> NoMapping, inputs |-> NoInputs,
     request |-> NoRequest, calls |-> 0, response |-> NoResponse,
     trace |-> <<>>, outcome |-> NoOutcome]

(***************************************************************************)
(* State of one invocation of post_room_message_action.                    *)
(***************************************************************************)
VARIABLES
    pc,         \* where the invocation stands
    settings,   \* the settings mapping the host supplied
    inputs,     \* the inputs mapping the host supplied
    config,     \* the ChatworkSettings resolved from settings
    room_id,    \* the effective room id
    trace,      \* the debug records emitted so far
    payload,    \* the body built by build_message_payload
    calls,      \* how many times request_impl has been invoked
    request,    \* the request handed to request_impl
    response,   \* the response request_impl returned
    outcome,    \* how the invocation ended
    memo        \* an earlier invocation, as an observer of the host recorded it

vars == <<pc, settings, inputs, config, room_id, trace, payload, calls,
          request, response, outcome, memo>>

Init ==
    /\ pc = "idle"
    /\ settings = NoMapping
    /\ inputs = NoInputs
    /\ config = NoConfig
    /\ room_id = <<>>
    /\ trace = <<>>
    /\ payload = <<>>
    /\ calls = 0
    /\ request = NoRequest
    /\ response = NoResponse
    /\ outcome = NoOutcome
    /\ memo = NoMemo

\* the host invokes the action
Invoke ==
    /\ pc = "idle"
    /\ \E s \in SettingsMappings, i \in InputMappings :
          /\ settings' = s
          /\ inputs' = i
    /\ pc' = "from_mapping"
    /\ UNCHANGED <<config, room_id, trace, payload, calls, request, response,
                   outcome,
                   memo>>

\* config = ChatworkSettings.from_mapping(raw_settings)
ResolveSettings ==
    /\ pc = "from_mapping"
    /\ LET r == from_mapping(settings)
       IN  IF r.raised
           THEN /\ outcome' = Raise("ValidationError")
                /\ pc' = "done"
                /\ UNCHANGED config
           ELSE /\ config' = r.config
                /\ pc' = "normalize_room_id"
                /\ UNCHANGED outcome
    /\ UNCHANGED <<settings, inputs, room_id, trace, payload, calls, request,
                   response,
                   memo>>

\* room_id = _normalize_room_id(inputs.get("roomId") or config.default_room_id)
ResolveRoom ==
    /\ pc = "normalize_room_id"
    /\ LET r == normalize_room_id(room_id_value(inputs, config))
       IN  IF r.raised
           THEN /\ outcome' = Raise("ValidationError")
                /\ pc' = "done"
                /\ UNCHANGED room_id
           ELSE /\ room_id' = r.room_id
                /\ pc' = "log_preparing"
                /\ UNCHANGED outcome
    /\ UNCHANGED <<settings, inputs, config, trace, payload, calls, request,
                   response,
                   memo>>

\* logger.debug("... preparing request")
LogPreparing ==
    /\ pc = "log_preparing"
    /\ trace' = Append(trace, "preparing")
    /\ pc' = "build"
    /\ UNCHANGED <<settings, inputs, config, room_id, payload, calls, request,
                   response, outcome,
                   memo>>

\* client = ChatworkClient(...); payload = build_message_payload(...)
BuildPayload ==
    /\ pc = "build"
    /\ LET r == build_message_payload(
                    Get(inputs, "message"),
                    Truthy(GetDefault(inputs, "selfMention", Bool(FALSE))),
                    Truthy(GetDefault(inputs, "linkUrls", Bool(FALSE))),
                    config.account_id)
       IN  IF config.api_token = <<>>
           THEN /\ outcome' = Raise("ValidationError")
                /\ pc' = "done"
                /\ UNCHANGED payload
           ELSE IF r.error # "none"
           THEN /\ outcome' = Raise(r.error)
                /\ pc' = "done"
                /\ UNCHANGED payload
           ELSE /\ payload' = r.body
                /\ pc' = "post_room_message"
                /\ UNCHANGED outcome
    /\ UNCHANGED <<settings, inputs, config, room_id, trace, calls, request,
                   response,
                   memo>>

\* the base_url the client holds: (base_url or DEFAULT_BASE_URL).rstrip("/")
ClientBaseUrl(base_url) ==
    RStripSlash(IF base_url # <<>> THEN base_url ELSE DEFAULT_BASE_URL)

\* client.post_room_message up to the call of request_impl
SendRequest ==
    /\ pc = "post_room_message"
    /\ IF room_id = <<>>
       THEN /\ outcome' = Raise("ValidationError")
            /\ pc' = "done"
            /\ UNCHANGED <<calls, request>>
       ELSE /\ request' =
                  [url |-> ClientBaseUrl(config.base_url)
                           \o <<"/", "r", "o", "o", "m", "s", "/">>
                           \o Quote(room_id)
                           \o <<"/", "m", "e", "s", "s", "a", "g", "e", "s">>,
                   method |-> "POST",
                   token |-> config.api_token,
                   body |-> UrlEncodeBody(payload)]
            /\ calls' = calls + 1
            /\ pc' = "request_impl"
            /\ UNCHANGED outcome
    /\ UNCHANGED <<settings, inputs, config, room_id, trace, payload, response,
                   memo>>

\* post_room_message sending the request again after a status of 300 or more
\* that is not 401
ReceiveResponse_retry ==
    /\ pc = "request_impl"
    /\ \E r \in Responses :
          /\ response' = r
          /\ LET o == interpret_response(r)
             IN  IF o.kind = "return"
                 THEN /\ pc' = "normalize"
                      /\ UNCHANGED outcome
                 ELSE IF o.kind = "ChatworkAPIError" /\ r.status >= 300 /\ calls < 2
                 THEN /\ pc' = "post_room_message"
                      /\ UNCHANGED outcome
                 ELSE /\ outcome' = o
                      /\ pc' = "done"
    /\ UNCHANGED <<settings, inputs, config, room_id, trace, payload, calls,
                   request,
                   memo>>

\* request_impl returns a response; post_room_message interprets it
ReceiveResponse ==
    /\ pc = "request_impl"
    /\ \E r \in Responses :
          /\ response' = r
          /\ LET o == interpret_response(r)
             IN  IF o.kind = "return"
                 THEN /\ pc' = "normalize"
                      /\ UNCHANGED outcome
                 ELSE /\ outcome' = o
                      /\ pc' = "done"
    /\ UNCHANGED <<settings, inputs, config, room_id, trace, payload, calls,
                   request,
                   memo>>

\* _default_request_impl cannot reach the host: ChatworkAPIError without status
TransportFails ==
    /\ pc = "request_impl"
    /\ outcome' = Raise("ChatworkAPIError")
    /\ pc' = "done"
    /\ UNCHANGED <<settings, inputs, config, room_id, trace, payload, calls,
                   request, response,
                   memo>>

\* the result returned by post_room_message
Result == interpret_response(response).body_doc

\* the action emitting the completed trace before it builds the normalized result
NormalizeResult_logs_first ==
    /\ pc = "normalize"
    /\ trace' = Append(trace, "completed")
    /\ IF Result.k # "dict"
       THEN outcome' = Raise("AttributeError")
       ELSE outcome' = Outcome("result", 0, EmptyText, EmptyDict,
                               normalize_result(Result, room_id))
    /\ pc' = "done"
    /\ UNCHANGED <<settings, inputs, config, room_id, payload, calls, request,
                   response,
                   memo>>

\* normalized = {...}; logger.debug("... completed"); return normalized
NormalizeResult ==
    /\ pc = "normalize"
    /\ IF Result.k # "dict"
       THEN /\ outcome' = Raise("AttributeError")
            /\ UNCHANGED trace
       ELSE /\ outcome' = Outcome("result", 0, EmptyText, EmptyDict,
                                  normalize_result(Result, room_id))
            /\ trace' = Append(trace, "completed")
    /\ pc' = "done"
    /\ UNCHANGED <<settings, inputs, config, room_id, payload, calls, request,
                   response,
                   memo>>

\* a count of the requests sent that survives the invocation
Forget_keeps_calls ==
    /\ pc = "done"
    /\ pc' = "idle"
    /\ settings' = NoMapping
    /\ inputs' = NoInputs
    /\ config' = NoConfig
    /\ room_id' = <<>>
    /\ trace' = <<>>
    /\ payload' = <<>>
    /\ calls' = calls
    /\ request' = NoRequest
    /\ response' = NoResponse
    /\ outcome' = NoOutcome

\* the invocation is over and nothing of it is kept: its Settings, client,
\* payload and result are locals of post_room_message_action
Forget ==
    /\ pc = "done"
    /\ pc' = "idle"
    /\ settings' = NoMapping
    /\ inputs' = NoInputs
    /\ config' = NoConfig
    /\ room_id' = <<>>
    /\ trace' = <<>>
    /\ payload' = <<>>
    /\ calls' = 0
    /\ request' = NoRequest
    /\ response' = NoResponse
    /\ outcome' = NoOutcome

\* the action returns or raises to the host
Return == Forget /\ UNCHANGED memo

Next ==
    \/ Invoke
    \/ ResolveSettings
    \/ ResolveRoom
    \/ LogPreparing
    \/ BuildPayload
    \/ SendRequest
    \/ ReceiveResponse
    \/ TransportFails
    \/ NormalizeResult
    \/ Return

Spec == Init /\ [][Next]_vars

(***************************************************************************)
(* Repeated invocations under observation.  The host invokes the action    *)
(* again and again with mappings of a small set, against a transport that  *)
(* answers from a small set; an observer records one finished invocation   *)
(* and counts the ones that follow it.                                     *)
(***************************************************************************)
ProbeSettings ==
    [apiToken : {Str(<<" ">>), Str(<<" ", "t", "k", " ">>)},
     baseUrl : {Absent},
     defaultRoomId : {Absent, Str(<<" ", "9", " ">>)},
     accountId : {Str(<<" ", "a", " ">>)}]

ProbeInputs ==
    [roomId : {Absent, Str(<<" ", "7", " ">>), Num(0)},
     message : {Absent, Str(<<" ", "h", "i", " ">>)},
     selfMention : {Absent, Bool(TRUE)},
     linkUrls : {Absent}]

ProbeResponses ==
    [status : {200, 300, 401},
     text : {EmptyText, InvalidText, JsonText(NotAnObject),
             JsonText(Dict(Str(<<"m", "1">>), Absent, Num(1700000000), Absent))}]

\* the host invokes the action with one of the probe mappings
InvokeProbe ==
    /\ pc = "idle"
    /\ \E s \in ProbeSettings, i \in ProbeInputs :
          /\ settings' = s
          /\ inputs' = i
    /\ pc' = "from_mapping"
    /\ UNCHANGED <<config, room_id, trace, payload, calls, request, response,
                   outcome, memo>>

\* the stub returns one of the probe responses; post_room_message interprets it
ReceiveProbe ==
    /\ pc = "request_impl"
    /\ \E r \in ProbeResponses :
          /\ response' = r
          /\ LET o == interpret_response(r)
             IN  IF o.kind = "return"
                 THEN /\ pc' = "normalize"
                      /\ UNCHANGED outcome
                 ELSE /\ outcome' = o
                      /\ pc' = "done"
    /\ UNCHANGED <<settings, inputs, config, room_id, trace, payload, calls,
                   request, memo>>

\* the action returns or raises to the host, and the observer records this
\* invocation
ReturnRecorded ==
    /\ Forget
    /\ memo' = [valid |-> TRUE, later |-> 0, settings |-> settings,
                inputs |-> inputs, request |-> request, calls |-> calls,
                response |-> response, trace |-> trace, outcome |-> outcome]

\* the action returns or raises to the host, and the observer counts this
\* invocation as one that followed the recorded one
ReturnCounted ==
    /\ Forget
    /\ memo.valid
    /\ memo' = [memo EXCEPT !.later = IF @ < MaxLater THEN @ + 1 ELSE @]

NextRepeat ==
    \/ InvokeProbe
    \/ ResolveSettings
    \/ ResolveRoom
    \/ LogPreparing
    \/ BuildPayload
    \/ SendRequest
    \/ ReceiveProbe
    \/ TransportFails
    \/ NormalizeResult
    \/ ReturnRecorded
    \/ ReturnCounted

SpecRepeat == Init /\ [][NextRepeat]_vars


(***************************************************************************)
(* Properties.                                                             *)
(***************************************************************************)
\* request_impl has returned a response in this invocation
Responded == response # NoResponse

\* the body post_room_message parses out of the response text
ParsedBody ==
    IF response.text.form = "json" THEN response.text.doc ELSE EmptyDict

\* C1: an invocation that ends by raising ValidationError has never invoked
\* request_impl: every ValidationError is raised before any network call.
C1_ValidationBeforeNetwork ==
    outcome.kind = "ValidationError" => calls = 0 /\ request = NoRequest

\* an invocation that raised ValidationError for a missing message, after the
\* settings and the room id were resolved and the preparing trace was emitted
C1_Witness ==
    /\ pc = "done"
    /\ outcome.kind = "ValidationError"
    /\ trace = <<"preparing">>
    /\ inputs.message = Absent

\* C2 as stated: a response with status 401, whatever its body text, makes the
\* invocation raise AuthenticationError with status 401 and the parsed body.
C2_Original ==
    (pc = "done" /\ Responded /\ response.status = 401)
        => /\ outcome.kind = "AuthenticationError"
           /\ outcome.status = 401
           /\ outcome.body_doc = ParsedBody

\* C2 amended: a response with status 401 whose text is empty or valid JSON makes
\* the invocation raise AuthenticationError with status 401 and the parsed body;
\* a 401 whose text is not JSON raises ChatworkAPIError with status 401 and the
\* raw text.  In neither case is a result returned.
C2_Unauthorized ==
    (pc = "done" /\ Responded /\ response.status = 401)
        => IF response.text.form = "invalid"
           THEN /\ outcome.kind = "ChatworkAPIError"
                /\ outcome.status = 401
                /\ outcome.body_text = response.text
           ELSE /\ outcome.kind = "AuthenticationError"
                /\ outcome.status = 401
                /\ outcome.body_doc = ParsedBody

\* an invocation that raised AuthenticationError on a 401 with a JSON body
C2_Witness ==
    /\ pc = "done"
    /\ response.status = 401
    /\ response.text.form = "json"
    /\ outcome.kind = "AuthenticationError"

\* C3: a response whose status is neither 401 nor in 200..299 makes the
\* invocation raise ChatworkAPIError with that status, whatever the body text;
\* no normalized result is returned for a status outside 200..299.
C3_HttpError ==
    /\ (pc = "done" /\ Responded /\ response.status # 401
            /\ ~(response.status \in 200..299))
          => outcome.kind = "ChatworkAPIError" /\ outcome.status = response.status
    /\ (pc = "normalize" \/ outcome.kind = "result")
          => response.status \in 200..299

\* an invocation that raised ChatworkAPIError on status 300 with a JSON body
C3_Witness ==
    /\ pc = "done"
    /\ response.status = 300
    /\ response.text.form = "json"
    /\ outcome.kind = "ChatworkAPIError"
    /\ outcome.status = 300

\* C4 as stated: an invocation returns a normalized result or fails with one of
\* ValidationError, AuthenticationError, ChatworkAPIError, and nothing else.
C4_Original ==
    pc = "done"
        => outcome.kind \in {"result", "ValidationError", "AuthenticationError",
                             "ChatworkAPIError"}

\* C5 as stated: when inputs holds a roomId that is a string or a number and the
\* settings hold a defaultRoomId, the effective room id is derived from the
\* input roomId, never from defaultRoomId.
C5_Original ==
    (room_id # <<>> /\ inputs.roomId.t \in {"str", "num"}
        /\ settings.defaultRoomId # Absent)
        => /\ ~normalize_room_id(inputs.roomId).raised
           /\ room_id = normalize_room_id(inputs.roomId).room_id

\* build_message_payload has been applied in this invocation
PayloadStageDone == Len(trace) >= 1 /\ pc # "build"

\* the mention tag of C6: "[To:a] " iff selfMention is true and a is present
C6_Mention ==
    IF Truthy(Get(inputs, "selfMention")) /\ config.account_id # None
    THEN <<"[", "T", "o", ":">> \o config.account_id.s \o <<"]", " ">>
    ELSE <<>>

\* the link marker of C6: "+" iff linkUrls is true
C6_Link == IF Truthy(Get(inputs, "linkUrls")) THEN <<"+">> ELSE <<>>

\* C6: for a non-empty message m, build_message_payload raises nothing and
\* returns the body P + L + trim(m): mention tag first, then the link marker.
C6_PayloadBody ==
    (PayloadStageDone /\ IsStr(inputs.message) /\ inputs.message.s # <<>>)
        => /\ pc = "post_room_message" \/ calls = 1
           /\ payload = C6_Mention \o C6_Link \o Strip(inputs.message.s)

\* a payload built with both flags set and an account id: "[To:a] +hi"
C6_Witness ==
    /\ pc = "post_room_message"
    /\ Truthy(Get(inputs, "selfMention"))
    /\ Truthy(Get(inputs, "linkUrls"))
    /\ payload = <<"[", "T", "o", ":", "a", "]", " ", "+", "h", "i">>

\* _normalize_room_id has been applied in this invocation
RoomStageDone == config # NoConfig /\ pc # "normalize_room_id"

\* _normalize_room_id raised ValidationError
RoomRaised ==
    pc = "done" /\ trace = <<>> /\ outcome.kind = "ValidationError"

\* C7 as stated: _normalize_room_id fails with ValidationError on null, returns
\* the integer string of a number, the trimmed form of a string that is not
\* blank, and fails with ValidationError on a blank string and on a value of
\* any other type, such as a boolean.
C7_Original ==
    RoomStageDone
        => LET v == room_id_value(inputs, config)
           IN  CASE v.t = "num" -> ~RoomRaised /\ room_id = IntToStr(v.n)
                 [] v.t = "str" /\ Strip(v.s) # <<>> ->
                        ~RoomRaised /\ room_id = Strip(v.s)
                 [] OTHER -> RoomRaised

\* C8 as stated: from_mapping succeeds exactly when apiToken is supplied and is
\* not blank, and api_token is then the trimmed token; a missing, null, empty or
\* blank apiToken fails with ValidationError.
C8_Original ==
    pc \notin {"idle", "from_mapping"}
        => LET token == settings.apiToken
               missing == \/ token \in {Absent, None}
                          \/ (IsStr(token) /\ Strip(token.s) = <<>>)
           IN  IF missing
               THEN /\ config = NoConfig
                    /\ pc = "done"
                    /\ outcome.kind = "ValidationError"
               ELSE /\ config.api_token = Strip(PyStr(token))
                    /\ config.api_token # <<>>

\* C9 as stated: a returned result has messageId equal to the response's
\* message_id field if the response holds that field, whatever its value, and
\* else its messageId field; roomId is the effective room id; raw is the parsed
\* response.
C9_Original ==
    outcome.kind = "result"
        => /\ outcome.result.messageId =
                  (IF ParsedBody.message_id # Absent THEN ParsedBody.message_id
                   ELSE Get(ParsedBody, "messageId"))
           /\ outcome.result.roomId = room_id
           /\ outcome.result.raw = ParsedBody

\* the field C10 says _normalize_timestamp picks: send_time if present, else
\* postedAt
C10_Picked ==
    IF ParsedBody.send_time # Absent THEN ParsedBody.send_time
    ELSE Get(ParsedBody, "postedAt")

\* C10 as stated: postedAt is the ISO-8601 UTC rendering of a numeric value
\* (0 included), a string unchanged, and null for an absent value or a value of
\* any other type, such as a boolean.
C10_Original ==
    outcome.kind = "result"
        => outcome.result.postedAt =
              (CASE C10_Picked.t = "num" -> Str(IsoFormatZ(C10_Picked.n))
                 [] C10_Picked.t = "str" -> C10_Picked
                 [] OTHER -> None)


\* C11 as stated: the URL handed to the transport is B + "/rooms/" +
\* quote(room id) + "/messages" with B the base_url the resolved settings hold;
\* B is never empty and never ends with "/"; the method is POST and the token
\* header is the resolved api_token.
C11_Original ==
    calls >= 1
        => /\ request.url =
                  config.base_url \o <<"/", "r", "o", "o", "m", "s", "/">>
                  \o Quote(room_id)
                  \o <<"/", "m", "e", "s", "s", "a", "g", "e", "s">>
           /\ config.base_url # <<>>
           /\ config.base_url[Len(config.base_url)] # "/"
           /\ request.method = "POST"
           /\ request.token = config.api_token


\* C13: within one invocation request_impl is invoked at most once: no second
\* request follows a response or a transport failure, and the invocation ends
\* with exactly one result or one error.
C13_AtMostOneCall ==
    /\ calls <= 1
    /\ Responded => calls = 1
    /\ pc = "done" <=> outcome.kind # "none"
    /\ pc \in {"request_impl", "normalize"} => calls = 1

\* an invocation ended by a transport failure: one call, no response, one error
C13_Witness ==
    /\ pc = "done"
    /\ calls = 1
    /\ ~Responded
    /\ outcome.kind = "ChatworkAPIError"
    /\ outcome.status = 0

\* the completed trace has been emitted
Completed == \E i \in 1..Len(trace) : trace[i] = "completed"

\* C14: the preparing trace precedes any transport call; the completed trace is
\* emitted exactly when the invocation returns a normalized result, after the
\* transport call and after the preparing trace; an invocation that raises an
\* error never emits it.
C14_TraceOrder ==
    /\ calls >= 1 => Len(trace) >= 1 /\ trace[1] = "preparing"
    /\ Completed <=> outcome.kind = "result"
    /\ Completed => calls = 1 /\ Responded /\ trace = <<"preparing", "completed">>
    /\ (pc = "done" /\ outcome.kind # "result") => ~Completed

\* an invocation that returned a result after both traces
C14_Witness ==
    /\ pc = "done"
    /\ outcome.kind = "result"
    /\ calls = 1
    /\ trace = <<"preparing", "completed">>

\* C15 as stated: every request body that reaches the transport carries message
\* text that is not empty after trimming; a blank message fails with
\* ValidationError before any request, so the body is never just the prefixes.
C15_Original ==
    /\ calls >= 1
          => /\ IsStr(inputs.message)
             /\ Strip(inputs.message.s) # <<>>
             /\ request.body # UrlEncodeBody(C6_Mention \o C6_Link)
    /\ (PayloadStageDone /\ IsStr(inputs.message)
            /\ Strip(inputs.message.s) = <<>>)
          => outcome.kind = "ValidationError" /\ calls = 0


\* the invocation now finished was given the settings and inputs of the
\* recorded one
SameInvocation ==
    /\ memo.valid
    /\ pc = "done"
    /\ settings = memo.settings
    /\ inputs = memo.inputs

\* C12: an invocation with the settings and inputs of an earlier one sends the
\* same requests (as many, and the same one), and, the transport answering the
\* same way, ends with the same outcome and the same trace, whatever was
\* invoked in between: nothing survives from one invocation to the next.
C12_SameInputsSameOutcome ==
    SameInvocation
        => /\ calls = memo.calls
           /\ request = memo.request
           /\ response = memo.response
                 => outcome = memo.outcome /\ trace = memo.trace

\* the recorded invocation returned a result, other invocations followed, and
\* the same invocation has returned the same result again
C12_Witness ==
    /\ SameInvocation
    /\ memo.later >= 1
    /\ calls = 1
    /\ response = memo.response
    /\ outcome.kind = "result"

====
